---- MODULE Spec2Model ----
(***************************************************************************)
(* A model of go-mapnik's maptiles package: the tile / metatile coordinate *)
(* model, the per-layer render worker pools behind LayerMultiplex, the     *)
(* read-through orchestration of TileServer.ServeTileRequest, and the      *)
(* content-addressed sqlite cache TileDb.                                  *)
(*                                                                         *)
(* The render side and the cache side are two state machines over disjoint *)
(* variables; each has its own specification (SpecRender, SpecCache) that  *)
(* leaves the other side's variables unchanged.                            *)
(***************************************************************************)
EXTENDS Integers, Sequences, FiniteSets, Bags, TLC

(***************************************************************************)
(* Bounds of the model.                                                    *)
(***************************************************************************)
\* uint64 arithmetic is modelled as arithmetic modulo 2^WordBits.
WordBits == 5
\* workers (and renderer instances) per pool: LayerMultiplex.numRenderers
NumRenderers == 2
\* pools that CreateRenderer may build
MaxQueues == 2
\* requests handed to the multiplexer
MaxReq == 2
\* the requests submitted in the admission runs, one more than a queue has workers
MaxSubmit == 3
\* distinct tile contents in the cache, and distinct rendered contents
MaxBlob == 2
MaxRenderBlob == 1
\* fetch, insert and BatchInsert operations begun on the cache, goroutines
\* spawned by Run that have not finished, items of a BatchInsert list
MaxOps == 3
MaxTasks == 2
MaxBatch == 2
\* storage calls that fail although the handle is open
MaxFaults == 1
\* zoom of the cached tiles; their rows are 0 .. 2^CacheZoom - 1
CacheZoom == 1
\* largest column and largest row of a requested coordinate; requests are
\* at zoom ReqZoom, whose rows are 0 .. 2^ReqZoom - 1, so the largest row is
\* one past the valid ones
MaxCol == 1
MaxRow == 2
ReqZoom == 1
\* coordinates that setTMS and TileCoords() are called on: zooms 0 .. MaxZoom,
\* MinX and MinY in 0 .. MaxMin, blocks of 1 .. MaxSize columns and rows,
\* tile rows 0 .. 2^MaxZoom (one past the valid ones), and MaxCalls calls
MaxZoom == 3
MaxMin == 2
MaxSize == 2
MaxCalls == 3

Word == 2 ^ WordBits

\* wrap-around of an unsigned machine word
U(n) == n % Word

LayerNames == {"", "default", "roads"}
\* the layers given a stylesheet of their own with AddRenderer
StyledLayers == {"roads"}
Blobs == 1 .. MaxBlob
RenderBlobs == 1 .. MaxRenderBlob
\* a nil []byte
NilBytes == 0
\* a nil error
NoErr == "nil"

(***************************************************************************)
(* Coordinate model                                                        *)
(***************************************************************************)
\* 1 << zoom on an unsigned word: shifting by the width or more gives 0
Shl1(zoom) == IF zoom >= WordBits THEN 0 ELSE 2 ^ zoom

TileCoord(x, y, zoom, tms, layer) ==
    [X |-> x, Y |-> y, Zoom |-> zoom, Tms |-> tms, Layer |-> layer]

MetaTileCoord(minX, minY, maxX, maxY, zoom, tms, layer) ==
    [MinX |-> minX, MinY |-> minY, MaxX |-> maxX, MaxY |-> maxY,
     Zoom |-> zoom, Tms |-> tms, Layer |-> layer]

\* a setTMS that mirrors the row whatever scheme the tile has
TileSetTMSAlways(c, tms) ==
    [c EXCEPT !.Y = U(Shl1(c.Zoom) - c.Y - 1), !.Tms = tms]

\* func (c *TileCoord) setTMS(tms bool)
TileSetTMS(c, tms) ==
    IF c.Tms # tms
    THEN [c EXCEPT !.Y = U(Shl1(c.Zoom) - c.Y - 1), !.Tms = tms]
    ELSE c

\* a block setTMS that mirrors MinY and MaxY and does not swap them
MetaSetTMSNoSwap(c, tms) ==
    IF c.Tms # tms
    THEN [c EXCEPT !.MinY = U(Shl1(c.Zoom) - c.MinY - 1),
                   !.MaxY = U(Shl1(c.Zoom) - c.MaxY - 1), !.Tms = tms]
    ELSE c

\* func (c *MetaTileCoord) setTMS(tms bool)
MetaSetTMS(c, tms) ==
    IF c.Tms # tms
    THEN LET minY == U(Shl1(c.Zoom) - c.MinY - 1)
             maxY == U(Shl1(c.Zoom) - c.MaxY - 1)
         IN  [c EXCEPT !.MinY = maxY, !.MaxY = minY, !.Tms = tms]
    ELSE c

\* XSize / YSize panic on an inverted block; the model only calls them on
\* blocks with MaxX >= MinX and MaxY >= MinY.
XSize(c) == U(c.MaxX - c.MinX + 1)

YSize(c) == U(c.MaxY - c.MinY + 1)

\* a Count that adds the sizes
CountSum(c) == U(XSize(c) + YSize(c))

Count(c) == U(XSize(c) * YSize(c))

\* the inner loop of TileCoords: y from 0 to ySize-1 at column offset x
RECURSIVE ColumnCoords(_, _, _)
ColumnCoords(c, x, y) ==
    IF y >= YSize(c) THEN << >>
    ELSE << TileCoord(U(c.MinX + x), U(c.MinY + y), c.Zoom, c.Tms, c.Layer) >>
         \o ColumnCoords(c, x, y + 1)

\* the outer loop of TileCoords: x from 0 to xSize-1
RECURSIVE BlockCoords(_, _)
BlockCoords(c, x) ==
    IF x >= XSize(c) THEN << >>
    ELSE ColumnCoords(c, x, 0) \o BlockCoords(c, x + 1)

\* an enumeration row by row: outer loop over Y, inner loop over X
TileCoordsRowMajor(c) ==
    [i \in 1 .. XSize(c) * YSize(c) |->
        TileCoord(U(c.MinX + ((i - 1) % XSize(c))), U(c.MinY + ((i - 1) \div XSize(c))),
                  c.Zoom, c.Tms, c.Layer)]

TileCoords(c) == BlockCoords(c, 0)

TileFetchResult(coord, blob, err) ==
    [Coord |-> coord, BlobPNG |-> blob, Error |-> err]

(***************************************************************************)
(* Renderer: RenderTile / RenderMetaTile.  The pixels come from mapnik and *)
(* image/png; what they return is an input of the model (an outcome).      *)
(***************************************************************************)
ErrInvalidMeta == "Invalid metatile coordinates"
ErrRender == "render failed"
ErrDecode == "png decode failed"
ErrNoSubImage == "Decoded image type does not have SubImage method"
ErrEncode == "png encode failed"
\* errors of database/sql: a call on a closed handle, any other failure
ErrClosed == "sql: database is closed"
ErrStorage == "storage error"
\* sql.ErrNoRows, what row.Scan returns when the query has no row
ErrNoRows == "sql: no rows in result set"

\* what mapnik's RenderToMemoryPng returns for a single tile
TileOutcomes == [kind : {"ok"}, blob : RenderBlobs] \cup [kind : {"renderErr"}, blob : {NilBytes}]

\* what mapnik and image/png do during one block render: the block renders
\* or not, the rendered image decodes or not, has SubImage or not, and at
\* most one slice (encFail, 0 for none) fails to encode.
MetaOutcomes ==
    [kind : {"ok"}, blob : RenderBlobs, encFail : 0 .. 2]
    \cup [kind : {"renderErr", "decodeErr", "noSubImage"}, blob : {NilBytes}, encFail : {0}]

\* func (t *TileRenderer) RenderTile(c TileCoord) ([]byte, error)
RenderTile(c, o) ==
    LET c1 == TileSetTMS(c, FALSE)
    IN  IF o.kind = "ok" THEN [blob |-> o.blob, err |-> NoErr]
        ELSE [blob |-> NilBytes, err |-> ErrRender]

\* slicing loops whose failed slice keeps the bytes written before the error
SliceResultsKeepBytes(c, o) ==
    LET coords == TileCoords(c)
    IN  [i \in 1 .. Len(coords) |->
            TileFetchResult(coords[i], o.blob, IF i = o.encFail THEN ErrEncode ELSE NoErr)]

\* the slicing loops of RenderMetaTile: one result per tile of the converted
\* block c, the slice numbered o.encFail failing to encode (png.Encode writes
\* nothing before it rejects an image, so the failed slice has no bytes)
SliceResults(c, o) ==
    LET coords == TileCoords(c)
    IN  [i \in 1 .. Len(coords) |->
            IF i = o.encFail
            THEN TileFetchResult(coords[i], NilBytes, ErrEncode)
            ELSE TileFetchResult(coords[i], o.blob, NoErr)]

\* func (t *TileRenderer) RenderMetaTile(c MetaTileCoord) ([]TileFetchResult, error)
RenderMetaTile(coord, o) ==
    LET c == MetaSetTMS(coord, FALSE)
    IN  IF c.MaxX < c.MinX \/ c.MaxY < c.MinY
        THEN [results |-> << >>, err |-> ErrInvalidMeta]
        ELSE IF o.kind = "renderErr"
        THEN [results |-> << >>, err |-> ErrRender]
        ELSE IF XSize(c) = 1 /\ YSize(c) = 1
        THEN [results |-> << TileFetchResult(
                                TileCoord(c.MinX, c.MinY, c.Zoom, c.Tms, c.Layer),
                                o.blob, NoErr) >>,
              err |-> NoErr]
        ELSE IF o.kind = "decodeErr"
        THEN [results |-> << >>, err |-> ErrDecode]
        ELSE IF o.kind = "noSubImage"
        THEN [results |-> << >>, err |-> ErrNoSubImage]
        ELSE [results |-> SliceResults(c, o), err |-> NoErr]

\* the error branch of processRequestMeta: the error replicated once per
\* tile of the requested block, in the order of its own two loops
RECURSIVE ErrColumn(_, _, _, _)
ErrColumn(coord, err, x, y) ==
    IF y >= YSize(coord) THEN << >>
    ELSE << TileFetchResult(
              TileCoord(U(coord.MinX + x), U(coord.MinY + y), coord.Zoom,
                        coord.Tms, coord.Layer),
              NilBytes, err) >>
         \o ErrColumn(coord, err, x, y + 1)

RECURSIVE ErrBlock(_, _, _)
ErrBlock(coord, err, x) ==
    IF x >= XSize(coord) THEN << >>
    ELSE ErrColumn(coord, err, x, 0) \o ErrBlock(coord, err, x + 1)

\* processRequestMeta with the block error written once instead of once per tile
ProcessRequestMetaErrOnce(coord, o) ==
    LET r == RenderMetaTile(coord, o)
    IN  IF r.err # NoErr
        THEN [panic |-> FALSE, err |-> r.err,
              results |-> << TileFetchResult(TileCoords(coord)[1], NilBytes, r.err) >>]
        ELSE [panic |-> FALSE, err |-> NoErr, results |-> r.results]

\* processRequestMeta with the block error replicated over the tiles of the
\* block as RenderMetaTile converted it, instead of the block as requested
ProcessRequestMetaErrConverted(coord, o) ==
    LET r == RenderMetaTile(coord, o)
    IN  IF r.err # NoErr
        THEN [panic |-> FALSE, err |-> r.err,
              results |-> ErrBlock(MetaSetTMS(coord, FALSE), r.err, 0)]
        ELSE [panic |-> FALSE, err |-> NoErr, results |-> r.results]

\* func (t *TileRenderer) processRequestMeta: the results it will write to
\* outchan, or a panic when the renderer returned the wrong number of them
ProcessRequestMeta(coord, o) ==
    LET resultCount == Count(coord)
        r == RenderMetaTile(coord, o)
    IN  IF r.err # NoErr
        THEN [panic |-> FALSE, err |-> r.err, results |-> ErrBlock(coord, r.err, 0)]
        ELSE IF Len(r.results) # resultCount
        THEN [panic |-> TRUE, err |-> NoErr, results |-> << >>]
        ELSE [panic |-> FALSE, err |-> NoErr, results |-> r.results]

\* func (t *TileRenderer) processRequestTile: the one result it will write
ProcessRequestTile(coord, o) ==
    LET r == RenderTile(coord, o)
    IN  IF r.err # NoErr
        THEN << TileFetchResult(coord, NilBytes, r.err) >>
        ELSE << TileFetchResult(coord, r.blob, NoErr) >>

(***************************************************************************)
(* State.                                                                  *)
(***************************************************************************)
VARIABLES
    layerChans,   \* LayerMultiplex.layerChans: layer name -> queue, 0 if absent
    workers,      \* the goroutines running TileRenderer.Listen, one record each
    reqs,         \* the requests made so far, with their callers' positions;
                  \* out, accepted, renderErr and cached are history: the
                  \* results written to OutChan, whether a worker received
                  \* the request, the error RenderMetaTile returned for it,
                  \* and the bytes of the cache's reply
    server,       \* the multiplexer is a TileServer's (NewTileServer)
    cacheOn       \* TileServer.m != nil

renderVars == << layerChans, workers, reqs, server, cacheOn >>

(***************************************************************************)
(* State of the cache.                                                     *)
(***************************************************************************)
VARIABLES
    db,          \* the sqlite file: layers, layered_tiles, tile_blobs
    dbOpen,      \* TileDb.db has not been closed
    layerIds,    \* TileDb.layerIds, 0 for a name that is no key of the map
    dbLock,      \* TileDb.dbLock: the writer (0 for none) and the readers
    layerMx,     \* the package's layerMx: the goroutine holding it for writing
    chans,       \* insertChan and requestChan: closed or not
    run,         \* the goroutine of Run: position, requestClosed, insertClosed
    closer,      \* the position of the caller of Close
    tasks,       \* the goroutines spawned by Run: go m.fetch(r) / go m.insert(i);
                 \* open and asked are history: the fetch's query ran on an
                 \* open handle, the coordinate of the request as it was sent
    batch,       \* the BatchInsert call in progress and its per-item goroutines
    ops,         \* operations begun so far
    faultsLeft,  \* storage failures the environment may still inject
    crashed,     \* log.Fatal was called
    lastIns,     \* history: per tile, the bytes of the last insert that completed
    hist         \* history of the BatchInsert call: database and list at its start

cacheVars == << db, dbOpen, layerIds, dbLock, layerMx, chans, run, closer, tasks,
                batch, ops, faultsLeft, crashed, lastIns, hist >>

(***************************************************************************)
(* Coordinate values in the hands of a caller.                             *)
(***************************************************************************)
VARIABLES
    meta,        \* a MetaTileCoord: the value constructed, then the value after
                 \* each setTMS call made on it (empty: none under study)
    tile,        \* a TileCoord, in the same way
    coords,      \* the last TileCoords() call: the block it was called on and
                 \* the slice it returned
    calls        \* method calls made so far

coordVars == << meta, tile, coords, calls >>

vars == << layerChans, workers, reqs, server, cacheOn,
           db, dbOpen, layerIds, dbLock, layerMx, chans, run, closer, tasks,
           batch, ops, faultsLeft, crashed, lastIns, hist,
           meta, tile, coords, calls >>

NoCoords == [called |-> FALSE]

\* no coordinate value is under study
CoordIdle ==
    /\ meta = << >>
    /\ tile = << >>
    /\ coords = NoCoords
    /\ calls = 0

\* the tile coordinates ServeTileRequest is called with
TileInputs ==
    { TileCoord(x, y, ReqZoom, tms, l) :
        x \in {0}, y \in 0 .. MaxRow - 1, tms \in BOOLEAN, l \in {"", "roads"} }

\* the blocks submitted as metatile requests: MaxX >= MinX and MaxY >= MinY
MetaInputs ==
    { c \in { MetaTileCoord(0, minY, maxX, maxY, ReqZoom, tms, l) :
                minY \in 0 .. MaxRow, maxX \in 0 .. MaxCol, maxY \in 0 .. MaxRow,
                tms \in BOOLEAN, l \in {"default"} } :
        c.MaxY >= c.MinY }

\* fetch with no case for sql.ErrNoRows: the error of a query without a row
\* goes into the reply like any other
FetchSwitchNoRowsIsError(result, q, err) ==
    IF err # NoErr THEN [result EXCEPT !.Error = err]
    ELSE IF q.noRows THEN [result EXCEPT !.Error = ErrNoRows]
    ELSE [result EXCEPT !.BlobPNG = q.blob]

\* the switch on err of fetch: result is TileFetchResult{r.Coord, nil, nil},
\* q what the query gave (no row, or the blob scanned), err the error of a
\* query that failed (NoErr when it did not)
FetchSwitch(result, q, err) ==
    IF err # NoErr THEN [result EXCEPT !.Error = err]
    ELSE IF q.noRows THEN [result EXCEPT !.BlobPNG = NilBytes]
    ELSE [result EXCEPT !.BlobPNG = q.blob]

\* what a query of fetch gives
QueryResults ==
    {[noRows |-> TRUE, blob |-> NilBytes]} \cup [noRows : {FALSE}, blob : Blobs]

\* what a cache fetch can reply: a hit, a miss, or a storage error
CacheReplies ==
    { [BlobPNG |-> res.BlobPNG, Error |-> res.Error] :
        res \in { FetchSwitch(TileFetchResult(TileCoord(0, 0, 0, FALSE, ""), NilBytes, NoErr),
                              q, err) :
                    q \in QueryResults, err \in {NoErr, ErrStorage} } }

NoResult == [BlobPNG |-> NilBytes, Error |-> NoErr]

NumQueues == IF workers = << >> THEN 0 ELSE workers[Len(workers)].queue

\* func NewLayerMultiplex, called by NewTileServer (with or without a cache
\* file) or by a program that uses the multiplexer directly: no layer, no
\* worker, no request
InitRender ==
    /\ layerChans = [l \in LayerNames |-> 0]
    /\ workers = << >>
    /\ reqs = << >>
    /\ server \in BOOLEAN
    /\ cacheOn \in IF server THEN BOOLEAN ELSE {FALSE}

\* CreateRenderer with one renderer built before the loop and handed to every worker
SharedTileRenderer(q, i) == q

\* NewTileRenderer, once per iteration of CreateRenderer's loop: worker i of
\* queue q gets the renderer instance numbered after the existing ones
NewTileRenderer(q, i) == (q - 1) * NumRenderers + i

\* func (l *LayerMultiplex) CreateRenderer: numRenderers workers, each
\* listening on the new queue q with a renderer of its own
CreateRenderer(q) ==
    [i \in 1 .. NumRenderers |->
        [queue |-> q, renderer |-> NewTileRenderer(q, i), pc |-> "listen",
         req |-> 0, pending |-> << >>]]

\* func DefaultRenderMultiplex: one pool, registered as "" and as "default"
DefaultRenderMultiplex ==
    /\ ~server
    /\ reqs = << >>
    /\ workers = << >>
    /\ workers' = CreateRenderer(1)
    /\ layerChans' = [layerChans EXCEPT ![""] = 1, !["default"] = 1]
    /\ UNCHANGED << reqs, server, cacheOn >>
    /\ UNCHANGED << cacheVars, coordVars >>

\* func (l *LayerMultiplex) AddRenderer / TileServer.AddMapnikLayer
AddRenderer(name) ==
    /\ reqs = << >>
    /\ NumQueues < MaxQueues
    /\ workers' = workers \o CreateRenderer(NumQueues + 1)
    /\ layerChans' = [layerChans EXCEPT ![name] = NumQueues + 1]
    /\ UNCHANGED << reqs, server, cacheOn >>
    /\ UNCHANGED << cacheVars, coordVars >>

ZeroResult == TileFetchResult(TileCoord(0, 0, 0, FALSE, ""), NilBytes, NoErr)

NewReq(kind, coord, pc) ==
    [kind |-> kind, coord |-> coord, pc |-> pc, out |-> << >>,
     result |-> ZeroResult, needsInsert |-> FALSE, responded |-> "",
     inserts |-> 0, accepted |-> FALSE, renderErr |-> NoErr, cached |-> NilBytes]

\* func (t *TileServer) ServeTileRequest, up to its first blocking point:
\* with a cache the request goes to the cache's request queue
ServeTileRequest(tc) ==
    /\ server
    /\ Len(reqs) < MaxReq
    /\ reqs' = Append(reqs, NewReq("serve", tc, IF cacheOn THEN "cacheWait" ELSE "submit"))
    /\ UNCHANGED << layerChans, workers, server, cacheOn >>
    /\ UNCHANGED << cacheVars, coordVars >>

\* ServeTileRequest: result = <-ch after the cache fetch; a reply with bytes
\* is served, any other one sends the request to the renderers
CacheReply(r, rep) ==
    /\ reqs[r].pc = "cacheWait"
    /\ reqs' = [reqs EXCEPT
                  ![r].result = TileFetchResult(TileSetTMS(reqs[r].coord, TRUE),
                                                rep.BlobPNG, rep.Error),
                  ![r].cached = rep.BlobPNG,
                  ![r].pc = IF rep.BlobPNG = NilBytes THEN "submit" ELSE "respond"]
    /\ UNCHANGED << layerChans, workers, server, cacheOn >>
    /\ UNCHANGED << cacheVars, coordVars >>

\* a caller of LayerMultiplex.SubmitRequest with a MetaTileFetchRequest or a
\* TileFetchRequest of its own
NewFetchRequest(kind, c) ==
    /\ ~server
    /\ Len(reqs) < MaxReq
    /\ reqs' = Append(reqs, NewReq(kind, c, "submit"))
    /\ UNCHANGED << layerChans, workers, server, cacheOn >>
    /\ UNCHANGED << cacheVars, coordVars >>

\* SubmitRequest on a queue that takes the request whatever its workers are
\* doing: the send completes at once and worker w picks the request up
SubmitRequestNoWait(r, w) ==
    /\ reqs[r].pc = "submit"
    /\ layerChans[reqs[r].coord.Layer] # 0
    /\ workers[w].queue = layerChans[reqs[r].coord.Layer]
    /\ workers' = [workers EXCEPT ![w].pc = "render", ![w].req = r]
    /\ reqs' = [reqs EXCEPT ![r].pc = "await", ![r].accepted = TRUE]
    /\ UNCHANGED << layerChans, server, cacheOn >>
    /\ UNCHANGED << cacheVars, coordVars >>

\* func (l LayerMultiplex) SubmitRequest, the layer has a queue: c <- r
\* completes when a worker listening on c receives r (Listen: request, ok := <-c);
\* the worker enters ProcessRequest and the submitter goes on to read the replies
SubmitRequest(r, w) ==
    /\ reqs[r].pc = "submit"
    /\ layerChans[reqs[r].coord.Layer] # 0
    /\ workers[w].pc = "listen"
    /\ workers[w].queue = layerChans[reqs[r].coord.Layer]
    /\ workers' = [workers EXCEPT ![w].pc = "render", ![w].req = r]
    /\ reqs' = [reqs EXCEPT ![r].pc = "await", ![r].accepted = TRUE]
    /\ UNCHANGED << layerChans, server, cacheOn >>
    /\ UNCHANGED << cacheVars, coordVars >>

\* SubmitRequest, the layer has no queue: "No such layer" is logged and false
\* returned.  ServeTileRequest ignores the return value and goes on to
\* result = <-ch; a direct submitter sees the false.
SubmitNoLayer(r) ==
    /\ reqs[r].pc = "submit"
    /\ layerChans[reqs[r].coord.Layer] = 0
    /\ reqs' = [reqs EXCEPT ![r].pc = IF reqs[r].kind = "serve" THEN "await" ELSE "rejected"]
    /\ UNCHANGED << layerChans, workers, server, cacheOn >>
    /\ UNCHANGED << cacheVars, coordVars >>

\* func (t *TileRenderer) ProcessRequest up to its first write to outchan:
\* the render, with the outcome o of mapnik and image/png
Render(w, o) ==
    /\ workers[w].pc = "render"
    /\ LET r == workers[w].req
       IN  IF reqs[r].kind = "meta"
           THEN /\ o \in MetaOutcomes
                /\ LET p == ProcessRequestMeta(reqs[r].coord, o)
                   IN  /\ workers' = [workers EXCEPT
                             ![w].pc = IF p.panic THEN "panic" ELSE "send",
                             ![w].pending = p.results]
                       /\ reqs' = [reqs EXCEPT ![r].renderErr = p.err]
           ELSE /\ o \in TileOutcomes
                /\ workers' = [workers EXCEPT
                      ![w].pc = "send",
                      ![w].pending = ProcessRequestTile(reqs[r].coord, o)]
                /\ UNCHANGED reqs
    /\ UNCHANGED << layerChans, server, cacheOn >>
    /\ UNCHANGED << cacheVars, coordVars >>

\* outchan <- result: the worker's next pending result is received by the
\* request's caller.  ServeTileRequest takes it as its result and answers
\* "not found" when it has no bytes.
Send(w) ==
    /\ workers[w].pc = "send"
    /\ LET r == workers[w].req
           res == Head(workers[w].pending)
           rest == Tail(workers[w].pending)
       IN  /\ reqs[r].pc = "await"
           /\ workers' = [workers EXCEPT
                 ![w].pending = rest,
                 ![w].pc = IF rest = << >> THEN "listen" ELSE "send",
                 ![w].req = IF rest = << >> THEN 0 ELSE r]
           /\ reqs' = [reqs EXCEPT
                 ![r].out = Append(@, res),
                 ![r].result = IF reqs[r].kind = "serve" THEN res ELSE @,
                 ![r].needsInsert = reqs[r].kind = "serve" /\ res.BlobPNG # NilBytes,
                 ![r].responded = IF reqs[r].kind = "serve" /\ res.BlobPNG = NilBytes
                                  THEN "notfound" ELSE @,
                 ![r].pc = IF reqs[r].kind = "serve"
                           THEN (IF res.BlobPNG = NilBytes THEN "done" ELSE "respond")
                           ELSE (IF rest = << >> THEN "done" ELSE "await")]
    /\ UNCHANGED << layerChans, server, cacheOn >>
    /\ UNCHANGED << cacheVars, coordVars >>

\* ServeTileRequest writing the bytes and then sending every result it served
\* to the insert queue, rendered or cached
RespondAlwaysInsert(r) ==
    /\ reqs[r].pc = "respond"
    /\ reqs' = [reqs EXCEPT
                  ![r].responded = "bytes",
                  ![r].pc = IF cacheOn THEN "insert" ELSE "done"]
    /\ UNCHANGED << layerChans, workers, server, cacheOn >>
    /\ UNCHANGED << cacheVars, coordVars >>

\* ServeTileRequest: w.Write(result.BlobPNG)
Respond(r) ==
    /\ reqs[r].pc = "respond"
    /\ reqs' = [reqs EXCEPT
                  ![r].responded = "bytes",
                  ![r].pc = IF cacheOn /\ reqs[r].needsInsert THEN "insert" ELSE "done"]
    /\ UNCHANGED << layerChans, workers, server, cacheOn >>
    /\ UNCHANGED << cacheVars, coordVars >>

\* ServeTileRequest: t.m.InsertQueue() <- result
QueueInsert(r) ==
    /\ reqs[r].pc = "insert"
    /\ reqs' = [reqs EXCEPT ![r].inserts = @ + 1, ![r].pc = "done"]
    /\ UNCHANGED << layerChans, workers, server, cacheOn >>
    /\ UNCHANGED << cacheVars, coordVars >>

NextRender ==
    \/ DefaultRenderMultiplex
    \/ \E name \in StyledLayers : AddRenderer(name)
    \/ \E tc \in TileInputs : ServeTileRequest(tc)
    \/ \E mc \in MetaInputs : NewFetchRequest("meta", mc)
    \/ \E tc \in TileInputs : NewFetchRequest("tile", tc)
    \/ \E r \in 1 .. Len(reqs) : \E rep \in CacheReplies : CacheReply(r, rep)
    \/ \E r \in 1 .. Len(reqs) : \E w \in 1 .. Len(workers) : SubmitRequest(r, w)
    \/ \E r \in 1 .. Len(reqs) : SubmitNoLayer(r)
    \/ \E w \in 1 .. Len(workers) : \E o \in MetaOutcomes \cup TileOutcomes : Render(w, o)
    \/ \E w \in 1 .. Len(workers) : Send(w)
    \/ \E r \in 1 .. Len(reqs) : Respond(r)
    \/ \E r \in 1 .. Len(reqs) : QueueInsert(r)

(***************************************************************************)
(* Properties of the render side.                                          *)
(***************************************************************************)
ReqIds == 1 .. Len(reqs)
WorkerIds == 1 .. Len(workers)

\* the number of results the receiver of request r expects
Expected(r) == IF reqs[r].kind = "meta" THEN Count(reqs[r].coord) ELSE 1

\* some worker is inside ProcessRequest for request r
InProcess(r) == \E w \in WorkerIds : workers[w].req = r /\ workers[w].pc \in {"render", "send"}

\* the errors RenderMetaTile returns for a whole block
BlockErrors == {ErrInvalidMeta, ErrRender, ErrDecode, ErrNoSubImage}

\* C1: a request received by a worker never has more results written to its
\* reply channel than it expects (Count() for a metatile, one for a tile), and
\* once the worker has left ProcessRequest it has exactly that many, whether
\* the render succeeded or failed.
C1_ExactlyCountResults ==
    \A r \in ReqIds :
        reqs[r].accepted =>
            /\ Len(reqs[r].out) <= Expected(r)
            /\ ~InProcess(r) => Len(reqs[r].out) = Expected(r)

\* C1 witness: a metatile request of four tiles whose block render failed has
\* been processed to the end, and a later request is being served.
C1_Witness ==
    \E r \in ReqIds :
        /\ reqs[r].kind = "meta" /\ reqs[r].accepted /\ ~InProcess(r)
        /\ reqs[r].renderErr # NoErr
        /\ Count(reqs[r].coord) = 4 /\ Len(reqs[r].out) = 4
        /\ \E r2 \in ReqIds : r2 # r /\ InProcess(r2)

\* C3 (as claimed): every result written for a metatile request whose block
\* render succeeded carries, at position i, the i-th coordinate of
\* TileCoords() of the requested block.  The coordinates are compared as
\* tiles: the result's coordinate is first put in the request's scheme.
C3_ResultsFollowTileCoords ==
    \A r \in ReqIds :
        (reqs[r].kind = "meta" /\ reqs[r].renderErr = NoErr) =>
            \A i \in 1 .. Len(reqs[r].out) :
                TileSetTMS(reqs[r].out[i].Coord, reqs[r].coord.Tms)
                    = TileCoords(reqs[r].coord)[i]

\* C4: when RenderMetaTile returns an error, the results written are, in
\* order, one per coordinate of TileCoords() of the requested block, each
\* without bytes and each with that same error; Count() of them once the
\* worker is done.
C4_ErrorReplicated ==
    \A r \in ReqIds :
        (reqs[r].kind = "meta" /\ reqs[r].renderErr # NoErr) =>
            /\ Len(reqs[r].out) <= Count(reqs[r].coord)
            /\ \A i \in 1 .. Len(reqs[r].out) :
                  reqs[r].out[i] = TileFetchResult(TileCoords(reqs[r].coord)[i],
                                                   NilBytes, reqs[r].renderErr)
            /\ ~InProcess(r) => Len(reqs[r].out) = Count(reqs[r].coord)

\* C4 witness: a TMS block of two rows whose render failed has had both of
\* its error results written.
C4_Witness ==
    \E r \in ReqIds :
        /\ reqs[r].kind = "meta" /\ reqs[r].renderErr = ErrRender
        /\ reqs[r].coord.Tms /\ YSize(reqs[r].coord) = 2
        /\ ~InProcess(r) /\ Len(reqs[r].out) = Count(reqs[r].coord)

\* C8: no renderer instance belongs to two workers, and no renderer instance
\* is rendering two requests at once.
C8_RendererExclusive ==
    /\ \A w1, w2 \in WorkerIds :
          workers[w1].renderer = workers[w2].renderer => w1 = w2
    /\ \A w1, w2 \in WorkerIds :
          (/\ workers[w1].pc = "render" /\ workers[w2].pc = "render"
           /\ workers[w1].renderer = workers[w2].renderer)
          => workers[w1].req = workers[w2].req

\* C8 witness: two workers of the queue shared by "" and "default" render at
\* the same time, one a request for "" and one a request for "default".
C8_Witness ==
    \E w1, w2 \in WorkerIds :
        /\ workers[w1].queue = workers[w2].queue
        /\ workers[w1].pc = "render" /\ workers[w2].pc = "render"
        /\ reqs[workers[w1].req].coord.Layer = ""
        /\ reqs[workers[w2].req].coord.Layer = "default"

\* C2 (as claimed): a ServeTileRequest caller whose request was submitted for
\* a layer without a worker pool, and who waits on the reply channel,
\* eventually stops waiting.
C2_ReplyResolved ==
    \A r \in 1 .. MaxReq :
        (/\ r \in ReqIds /\ reqs[r].kind = "serve"
         /\ reqs[r].pc = "await" /\ ~reqs[r].accepted)
        ~> (r \in ReqIds /\ reqs[r].pc # "await")

\* a result with bytes has no error
WellFormed(res) == res.BlobPNG # NilBytes => res.Error = NoErr

\* C14: every result a worker wrote to a reply channel (processRequestTile,
\* processRequestMeta on success and on failure) and every result
\* ServeTileRequest received from the cache fetch or from a worker is well
\* formed.
C14_ResultsWellFormed ==
    \A r \in ReqIds :
        /\ \A i \in 1 .. Len(reqs[r].out) : WellFormed(reqs[r].out[i])
        /\ WellFormed(reqs[r].result)

\* C14 witness: a metatile request whose block rendered has a result with
\* bytes and a result whose slice failed to encode, which carries the error.
C14_Witness ==
    \E r \in ReqIds :
        /\ reqs[r].kind = "meta" /\ reqs[r].renderErr = NoErr
        /\ \E i, j \in 1 .. Len(reqs[r].out) :
              /\ reqs[r].out[i].BlobPNG # NilBytes /\ reqs[r].out[i].Error = NoErr
              /\ reqs[r].out[j].Error = ErrEncode

\* ServeTileRequest has called t.lmp.SubmitRequest(tr) for request r
Submitted(r) == reqs[r].accepted \/ reqs[r].pc = "await"

\* C20: ServeTileRequest with a cache.  The renderer is asked only when the
\* cache replied without bytes; a request the cache answered with bytes is
\* served those bytes and reaches neither the multiplexer nor the insert
\* queue; a request that ends "not found" got a render reply without bytes and
\* inserts nothing; a result is sent to the insert queue at most once, it is
\* the rendered result and has bytes, the send comes after the bytes were
\* written, and a request that returns after serving rendered bytes has sent
\* it exactly once.
C20_ReadThrough ==
    /\ [](cacheOn =>
           \A r \in ReqIds :
              reqs[r].kind = "serve" =>
                 /\ Submitted(r) => reqs[r].cached = NilBytes
                 /\ reqs[r].cached # NilBytes
                    => /\ reqs[r].out = << >>
                       /\ reqs[r].inserts = 0
                       /\ reqs[r].responded \in {"", "bytes"}
                       /\ reqs[r].result.BlobPNG = reqs[r].cached
                 /\ reqs[r].responded = "notfound"
                    => /\ reqs[r].pc = "done"
                       /\ reqs[r].inserts = 0
                       /\ Len(reqs[r].out) = 1
                       /\ reqs[r].out[1].BlobPNG = NilBytes
                 /\ reqs[r].inserts <= 1
                 /\ reqs[r].inserts = 1
                    => /\ reqs[r].responded = "bytes"
                       /\ Len(reqs[r].out) = 1
                       /\ reqs[r].result = reqs[r].out[1]
                       /\ reqs[r].result.BlobPNG # NilBytes
                 /\ (reqs[r].pc = "done" /\ reqs[r].responded = "bytes"
                                        /\ reqs[r].out # << >>)
                    => reqs[r].inserts = 1)
    /\ [][cacheOn =>
             \A r \in ReqIds :
                reqs'[r].inserts # reqs[r].inserts => reqs[r].responded = "bytes"]_vars

\* one request was served from the cache and has returned, another one missed
\* the cache, was rendered, served and sent to the insert queue
C20_Witness ==
    /\ cacheOn
    /\ \E r1, r2 \in ReqIds :
          /\ reqs[r1].cached # NilBytes /\ reqs[r1].responded = "bytes"
          /\ reqs[r1].pc = "done" /\ reqs[r1].inserts = 0
          /\ reqs[r2].cached = NilBytes /\ reqs[r2].accepted
          /\ reqs[r2].responded = "bytes" /\ reqs[r2].inserts = 1

(***************************************************************************)
(* The cache: TileDb over sqlite.                                          *)
(*                                                                         *)
(* The database is a record of its three tables.  layers and layered_tiles *)
(* have a primary key and are sets of rows; tile_blobs is declared         *)
(*   CREATE TABLE tile_blobs (checksum text, tile_data blob)               *)
(* with no key at all, so it is a bag of rows and REPLACE INTO tile_blobs  *)
(* never replaces anything.                                                *)
(***************************************************************************)
\* fmt.Sprintf("%x", md5.Sum(bytes)): one checksum per content
Md5Sum(bytes) == << "md5", bytes >>

\* if l == "" { l = "default" }
DefaultLayer(l) == IF l = "" THEN "default" ELSE l

\* the database NewTileDb leaves behind on a new file: the tables are empty
\* but for the layer 'default'
NewDb ==
    [layers |-> {[rowid |-> 1, layer_name |-> "default"]},
     layered_tiles |-> {},
     tile_blobs |-> EmptyBag]

\* SELECT rowid FROM layers WHERE layer_name=?  (0 stands for NULL)
SelectLayerRowid(d, name) ==
    IF \E row \in d.layers : row.layer_name = name
    THEN (CHOOSE row \in d.layers : row.layer_name = name).rowid
    ELSE 0

RECURSIVE MaxRowid(_)
MaxRowid(rows) ==
    IF rows = {} THEN 0
    ELSE LET row == CHOOSE r \in rows : TRUE
             m == MaxRowid(rows \ {row})
         IN  IF row.rowid > m THEN row.rowid ELSE m

\* INSERT OR IGNORE INTO layers(layer_name) VALUES(?)
InsertOrIgnoreLayer(d, name) ==
    IF \E row \in d.layers : row.layer_name = name
    THEN d
    ELSE [d EXCEPT !.layers = @ \cup {[rowid |-> MaxRowid(d.layers) + 1,
                                       layer_name |-> name]}]

\* a scan loop that keeps one id for every name: the rowid of the last row
SelectLayersLastRow(d) ==
    [name \in LayerNames |->
        IF SelectLayerRowid(d, name) # 0 THEN MaxRowid(d.layers) ELSE 0]

\* SELECT rowid, layer_name FROM layers, scanned into a fresh map; a name
\* that is not a key of the map reads as 0
SelectLayers(d) == [name \in LayerNames |-> SelectLayerRowid(d, name)]

\* a check that finds no blob row whatever the table holds
BlobNeverExists(d, checksum) == FALSE

\* SELECT 1 FROM tile_blobs WHERE checksum=?
BlobExists(d, checksum) ==
    \E row \in BagToSet(d.tile_blobs) : row.checksum = checksum

\* REPLACE INTO tile_blobs VALUES(?,?)
ReplaceBlob(d, checksum, data) ==
    [d EXCEPT !.tile_blobs = @ (+) SetToBag({[checksum |-> checksum, tile_data |-> data]})]

\* INSERT OR IGNORE INTO layered_tiles in place of REPLACE: a row whose
\* primary key is taken is dropped
InsertOrIgnoreTile(d, layerID, z, x, y, checksum) ==
    IF \E row \in d.layered_tiles :
          /\ row.layer_id = layerID /\ row.zoom_level = z
          /\ row.tile_column = x /\ row.tile_row = y
    THEN d
    ELSE [d EXCEPT !.layered_tiles = @ \cup
            {[layer_id |-> layerID, zoom_level |-> z, tile_column |-> x,
              tile_row |-> y, checksum |-> checksum]}]

\* REPLACE INTO layered_tiles VALUES(?, ?, ?, ?, ?): the row with the same
\* primary key (layer_id, zoom_level, tile_column, tile_row) is replaced
ReplaceTile(d, layerID, z, x, y, checksum) ==
    [d EXCEPT !.layered_tiles =
        { row \in @ : ~ (/\ row.layer_id = layerID /\ row.zoom_level = z
                         /\ row.tile_column = x /\ row.tile_row = y) }
        \cup {[layer_id |-> layerID, zoom_level |-> z, tile_column |-> x,
               tile_row |-> y, checksum |-> checksum]}]

\* the query of fetch:
\*   SELECT tile_data FROM tile_blobs WHERE checksum=(
\*     SELECT checksum FROM layered_tiles WHERE zoom_level=? AND tile_column=?
\*       AND tile_row=? AND layer_id=(SELECT rowid FROM layers WHERE layer_name=?))
\* with row.Scan: the first row's tile_data, or sql.ErrNoRows when the outer
\* SELECT has no row (no tile record, or no blob row with its checksum)
FetchQuery(d, zoom, x, y, l) ==
    LET layerID == SelectLayerRowid(d, l)
        tiles == { row \in d.layered_tiles :
                      /\ layerID # 0 /\ row.layer_id = layerID
                      /\ row.zoom_level = zoom /\ row.tile_column = x
                      /\ row.tile_row = y }
        blobs == { row \in BagToSet(d.tile_blobs) :
                      \E t \in tiles : row.checksum = t.checksum }
    IN  IF blobs = {}
        THEN [noRows |-> TRUE, blob |-> NilBytes]
        ELSE [noRows |-> FALSE, blob |-> (CHOOSE row \in blobs : TRUE).tile_data]

(***************************************************************************)
(* Inputs and steps of the cache.                                          *)
(***************************************************************************)
CacheLayers == {"", "default", "roads"}

\* the coordinates the cache is asked about
CacheCoords ==
    { TileCoord(0, y, CacheZoom, tms, l) :
        y \in 0 .. 2 ^ CacheZoom - 1, tms \in BOOLEAN, l \in CacheLayers }

\* the results handed to Insert and BatchInsert: rendered tiles, with bytes
CacheItems == { TileFetchResult(c, b, NoErr) : c \in CacheCoords, b \in Blobs }

\* a tile as the claims name it: layer ("" being "default"), zoom, column and
\* row, the row in the XYZ scheme
TileKey(c) == << DefaultLayer(c.Layer), c.Zoom, c.X, TileSetTMS(c, FALSE).Y >>

TileKeys == { TileKey(c) : c \in CacheCoords }

TaskIds == 1 .. MaxTasks
NoTask == [kind |-> "none"]
NoBatch == [pc |-> "none"]

\* the state NewTileDb returns: tables created, registry read, Run started
InitCache ==
    /\ db = NewDb
    /\ dbOpen = TRUE
    /\ layerIds = SelectLayers(NewDb)
    /\ dbLock = [writer |-> 0, readers |-> {}]
    /\ layerMx = 0
    /\ chans = [insert |-> "open", request |-> "open"]
    /\ run = [pc |-> "select", requestClosed |-> FALSE, insertClosed |-> FALSE]
    /\ closer = "idle"
    /\ tasks = [t \in TaskIds |-> NoTask]
    /\ batch = NoBatch
    /\ ops = 0
    /\ crashed = FALSE
    /\ lastIns = [k \in TileKeys |-> NilBytes]
    /\ hist = NoBatch

\* the first free slot for a new goroutine
FreeTask == CHOOSE t \in TaskIds : tasks[t] = NoTask /\ \A u \in 1 .. t - 1 : tasks[u] # NoTask

\* a storage call fails when the handle is closed, or when the environment
\* makes it fail (f)
MayFail(f) == f => (dbOpen /\ faultsLeft > 0)
Fails(f) == f \/ ~dbOpen
FaultsAfter(f) == IF f THEN faultsLeft - 1 ELSE faultsLeft
StorageErr(f) == IF ~dbOpen THEN ErrClosed ELSE ErrStorage

(***************************************************************************)
(* Run: the dispatcher goroutine.                                          *)
(***************************************************************************)
\* case r, ok := <-m.requestChan with ok: a caller's send on RequestQueue()
\* is received and go m.fetch(r) spawns a goroutine
RunFetch(c) ==
    /\ ~crashed
    /\ run.pc = "select" /\ chans.request = "open"
    /\ ops < MaxOps /\ \E t \in TaskIds : tasks[t] = NoTask
    /\ tasks' = [tasks EXCEPT ![FreeTask] =
                    [kind |-> "fetch", pc |-> "spawned", coord |-> c, asked |-> c,
                     result |-> ZeroResult, open |-> TRUE]]
    /\ ops' = ops + 1
    /\ UNCHANGED << db, dbOpen, layerIds, dbLock, layerMx, chans, run, closer,
                    batch, faultsLeft, crashed, lastIns, hist >>
    /\ UNCHANGED << renderVars, coordVars >>

\* case i, ok := <-m.insertChan with ok: a caller's send on InsertQueue() is
\* received and go m.insert(i) spawns a goroutine
RunInsert(i) ==
    /\ ~crashed
    /\ run.pc = "select" /\ chans.insert = "open"
    /\ ops < MaxOps /\ \E t \in TaskIds : tasks[t] = NoTask
    /\ tasks' = [tasks EXCEPT ![FreeTask] =
                    [kind |-> "insert", pc |-> "spawned", item |-> i]]
    /\ ops' = ops + 1
    /\ UNCHANGED << db, dbOpen, layerIds, dbLock, layerMx, chans, run, closer,
                    batch, faultsLeft, crashed, lastIns, hist >>
    /\ UNCHANGED << renderVars, coordVars >>

\* the receive from a closed channel, not yet noted: requestClosed or
\* insertClosed is set, and with both set the loop is left for m.qc <- true
RunSeesClosed(ch) ==
    /\ ~crashed
    /\ run.pc = "select" /\ chans[ch] = "closed"
    /\ LET rc == run.requestClosed \/ ch = "request"
           ic == run.insertClosed \/ ch = "insert"
       IN  /\ << rc, ic >> # << run.requestClosed, run.insertClosed >>
           /\ run' = [pc |-> IF rc /\ ic THEN "sendqc" ELSE "select",
                      requestClosed |-> rc, insertClosed |-> ic]
    /\ UNCHANGED << db, dbOpen, layerIds, dbLock, layerMx, chans, closer, tasks,
                    batch, ops, faultsLeft, crashed, lastIns, hist >>
    /\ UNCHANGED << renderVars, coordVars >>

(***************************************************************************)
(* Close.                                                                  *)
(***************************************************************************)
\* close(m.insertChan)
CloseInsertChan ==
    /\ ~crashed
    /\ closer = "idle"
    /\ closer' = "closeRequest"
    /\ chans' = [chans EXCEPT !.insert = "closed"]
    /\ UNCHANGED << db, dbOpen, layerIds, dbLock, layerMx, run, tasks,
                    batch, ops, faultsLeft, crashed, lastIns, hist >>
    /\ UNCHANGED << renderVars, coordVars >>

\* close(m.requestChan)
CloseRequestChan ==
    /\ ~crashed
    /\ closer = "closeRequest"
    /\ closer' = "waitqc"
    /\ chans' = [chans EXCEPT !.request = "closed"]
    /\ UNCHANGED << db, dbOpen, layerIds, dbLock, layerMx, run, tasks,
                    batch, ops, faultsLeft, crashed, lastIns, hist >>
    /\ UNCHANGED << renderVars, coordVars >>

\* <-m.qc, received from the dispatcher's m.qc <- true
CloseWaitRun ==
    /\ ~crashed
    /\ closer = "waitqc" /\ run.pc = "sendqc"
    /\ closer' = "closeDb"
    /\ run' = [run EXCEPT !.pc = "done"]
    /\ UNCHANGED << db, dbOpen, layerIds, dbLock, layerMx, chans, tasks,
                    batch, ops, faultsLeft, crashed, lastIns, hist >>
    /\ UNCHANGED << renderVars, coordVars >>

\* m.db.Close()
CloseDb ==
    /\ ~crashed
    /\ closer = "closeDb"
    /\ closer' = "closed"
    /\ dbOpen' = FALSE
    /\ UNCHANGED << db, layerIds, dbLock, layerMx, chans, run, tasks,
                    batch, ops, faultsLeft, crashed, lastIns, hist >>
    /\ UNCHANGED << renderVars, coordVars >>

(***************************************************************************)
(* fetch: one goroutine per request received by Run.                       *)
(***************************************************************************)
\* m.dbLock.RLock(); r.Coord.setTMS(true); result := TileFetchResult{r.Coord, nil, nil}
FetchStart(t) ==
    /\ ~crashed
    /\ tasks[t].kind = "fetch" /\ tasks[t].pc = "spawned"
    /\ dbLock.writer = 0
    /\ dbLock' = [dbLock EXCEPT !.readers = @ \cup {t}]
    /\ LET c == TileSetTMS(tasks[t].coord, TRUE)
       IN  tasks' = [tasks EXCEPT ![t].pc = "query", ![t].coord = c,
                                  ![t].result = TileFetchResult(c, NilBytes, NoErr)]
    /\ UNCHANGED << db, dbOpen, layerIds, layerMx, chans, run, closer,
                    batch, ops, faultsLeft, crashed, lastIns, hist >>
    /\ UNCHANGED << renderVars, coordVars >>

\* row := m.db.QueryRow(queryString, zoom, x, y, l); err := row.Scan(&blob)
\* and the switch on err
FetchRow(t, f) ==
    /\ ~crashed
    /\ tasks[t].kind = "fetch" /\ tasks[t].pc = "query"
    /\ MayFail(f)
    /\ LET c == tasks[t].coord
           q == FetchQuery(db, c.Zoom, c.X, c.Y, DefaultLayer(c.Layer))
           res == FetchSwitch(tasks[t].result, q,
                              IF Fails(f) THEN StorageErr(f) ELSE NoErr)
       IN  tasks' = [tasks EXCEPT ![t].pc = "reply", ![t].result = res,
                                  ![t].open = ~Fails(f)]
    /\ faultsLeft' = FaultsAfter(f)
    /\ UNCHANGED << db, dbOpen, layerIds, dbLock, layerMx, chans, run, closer,
                    batch, ops, crashed, lastIns, hist >>
    /\ UNCHANGED << renderVars, coordVars >>

\* r.OutChan <- result, received by the caller, and the deferred RUnlock
FetchReply(t) ==
    /\ ~crashed
    /\ tasks[t].kind = "fetch" /\ tasks[t].pc = "reply"
    /\ tasks' = [tasks EXCEPT ![t] = NoTask]
    /\ dbLock' = [dbLock EXCEPT !.readers = @ \ {t}]
    /\ UNCHANGED << db, dbOpen, layerIds, layerMx, chans, run, closer,
                    batch, ops, faultsLeft, crashed, lastIns, hist >>
    /\ UNCHANGED << renderVars, coordVars >>

(***************************************************************************)
(* ensureLayer and insert.                                                 *)
(***************************************************************************)
\* func (m *TileDb) ensureLayer(layer), run with nobody else at layerMx: a
\* layer missing from the map is inserted (a failure is only logged) and
\* readLayers reloads the map; readLayers calls log.Fatal when its query fails
EnsureLayer(d, ids, layer, execFails, queryFails) ==
    IF ids[layer] # 0
    THEN [db |-> d, layerIds |-> ids, fatal |-> FALSE]
    ELSE LET d1 == IF execFails THEN d ELSE InsertOrIgnoreLayer(d, layer)
         IN  IF queryFails
             THEN [db |-> d1, layerIds |-> [name \in LayerNames |-> 0], fatal |-> TRUE]
             ELSE [db |-> d1, layerIds |-> SelectLayers(d1), fatal |-> FALSE]

\* an insert that starts without waiting for m.dbLock
InsertStartNoLock(t) ==
    /\ ~crashed
    /\ tasks[t].kind = "insert" /\ tasks[t].pc = "spawned"
    /\ dbLock' = [dbLock EXCEPT !.writer = t]
    /\ tasks' = [tasks EXCEPT ![t].pc = "check",
                              ![t].item.Coord = TileSetTMS(@, TRUE)]
    /\ UNCHANGED << db, dbOpen, layerIds, layerMx, chans, run, closer,
                    batch, ops, faultsLeft, crashed, lastIns, hist >>
    /\ UNCHANGED << renderVars, coordVars >>

\* m.dbLock.Lock(); i.Coord.setTMS(true) on insert's own copy of the result
InsertStart(t) ==
    /\ ~crashed
    /\ tasks[t].kind = "insert" /\ tasks[t].pc = "spawned"
    /\ dbLock.writer = 0 /\ dbLock.readers = {}
    /\ dbLock' = [dbLock EXCEPT !.writer = t]
    /\ tasks' = [tasks EXCEPT ![t].pc = "check",
                              ![t].item.Coord = TileSetTMS(@, TRUE)]
    /\ UNCHANGED << db, dbOpen, layerIds, layerMx, chans, run, closer,
                    batch, ops, faultsLeft, crashed, lastIns, hist >>
    /\ UNCHANGED << renderVars, coordVars >>

\* the goroutine returns: the deferred m.dbLock.Unlock()
InsertReturns(t) ==
    /\ tasks' = [tasks EXCEPT ![t] = NoTask]
    /\ dbLock' = [dbLock EXCEPT !.writer = 0]

\* SELECT 1 FROM tile_blobs WHERE checksum=? and the switch on err: an error
\* other than "no rows" ends the insert
InsertCheck(t, f) ==
    /\ ~crashed
    /\ tasks[t].kind = "insert" /\ tasks[t].pc = "check"
    /\ MayFail(f)
    /\ IF Fails(f)
       THEN InsertReturns(t)
       ELSE /\ tasks' = [tasks EXCEPT ![t].pc =
                            IF BlobExists(db, Md5Sum(tasks[t].item.BlobPNG))
                            THEN "layer" ELSE "blob"]
            /\ UNCHANGED dbLock
    /\ faultsLeft' = FaultsAfter(f)
    /\ UNCHANGED << db, dbOpen, layerIds, layerMx, chans, run, closer,
                    batch, ops, crashed, lastIns, hist >>
    /\ UNCHANGED << renderVars, coordVars >>

\* case err == sql.ErrNoRows: REPLACE INTO tile_blobs VALUES(?,?); a failure
\* ends the insert
InsertBlob(t, f) ==
    /\ ~crashed
    /\ tasks[t].kind = "insert" /\ tasks[t].pc = "blob"
    /\ MayFail(f)
    /\ IF Fails(f)
       THEN InsertReturns(t) /\ UNCHANGED db
       ELSE /\ db' = ReplaceBlob(db, Md5Sum(tasks[t].item.BlobPNG), tasks[t].item.BlobPNG)
            /\ tasks' = [tasks EXCEPT ![t].pc = "layer"]
            /\ UNCHANGED dbLock
    /\ faultsLeft' = FaultsAfter(f)
    /\ UNCHANGED << dbOpen, layerIds, layerMx, chans, run, closer,
                    batch, ops, crashed, lastIns, hist >>
    /\ UNCHANGED << renderVars, coordVars >>

\* m.ensureLayer(l)
InsertEnsureLayer(t, f) ==
    /\ ~crashed
    /\ tasks[t].kind = "insert" /\ tasks[t].pc = "layer"
    /\ MayFail(f)
    /\ LET e == EnsureLayer(db, layerIds, DefaultLayer(tasks[t].item.Coord.Layer),
                            Fails(f), ~dbOpen)
       IN  /\ db' = e.db
           /\ layerIds' = e.layerIds
           /\ crashed' = e.fatal
    /\ tasks' = [tasks EXCEPT ![t].pc = "tile"]
    /\ faultsLeft' = FaultsAfter(f)
    /\ UNCHANGED << dbOpen, dbLock, layerMx, chans, run, closer,
                    batch, ops, lastIns, hist >>
    /\ UNCHANGED << renderVars, coordVars >>

\* REPLACE INTO layered_tiles VALUES(?, ?, ?, ?, ?) with m.layerIds[l]; a
\* failure is logged; the insert returns
InsertTile(t, f) ==
    /\ ~crashed
    /\ tasks[t].kind = "insert" /\ tasks[t].pc = "tile"
    /\ MayFail(f)
    /\ LET c == tasks[t].item.Coord
           l == DefaultLayer(c.Layer)
       IN  IF Fails(f)
           THEN UNCHANGED << db, lastIns >>
           ELSE /\ db' = ReplaceTile(db, layerIds[l], c.Zoom, c.X, c.Y,
                                     Md5Sum(tasks[t].item.BlobPNG))
                /\ lastIns' = [lastIns EXCEPT ![TileKey(c)] = tasks[t].item.BlobPNG]
    /\ InsertReturns(t)
    /\ faultsLeft' = FaultsAfter(f)
    /\ UNCHANGED << dbOpen, layerIds, layerMx, chans, run, closer,
                    batch, ops, crashed, hist >>
    /\ UNCHANGED << renderVars, coordVars >>

(***************************************************************************)
(* BatchInsert: the caller holds dbLock for the whole call; one goroutine  *)
(* per item fills the tiles and blobs lists; then one statement per list.  *)
(***************************************************************************)
\* the writer of dbLock that is the BatchInsert call
BatchWriter == MaxTasks + 1

BatchIds == IF batch.pc = "none" THEN {} ELSE 1 .. Len(batch.inserts)

\* the layer name a goroutine of the batch works with
BatchLayer(g) == DefaultLayer(batch.inserts[g].Coord.Layer)

\* m.dbLock.Lock(), the empty lists, wg.Add(len(inserts)) and the go statements
BatchInsert(list) ==
    /\ ~crashed
    /\ batch.pc = "none" /\ hist.pc = "none" /\ ops < MaxOps
    /\ dbLock.writer = 0 /\ dbLock.readers = {}
    /\ dbLock' = [dbLock EXCEPT !.writer = BatchWriter]
    /\ batch' = [pc |-> "items", inserts |-> list,
                 g |-> [i \in 1 .. Len(list) |-> "start"],
                 tiles |-> << >>, blobs |-> << >>]
    /\ hist' = [pc |-> "running", db |-> db, layerIds |-> layerIds, list |-> list,
                faulted |-> FALSE, inserts |-> list, dbAfter |-> db]
    /\ ops' = ops + 1
    /\ UNCHANGED << db, dbOpen, layerIds, layerMx, chans, run, closer, tasks,
                    faultsLeft, crashed, lastIns >>
    /\ UNCHANGED << renderVars, coordVars >>

\* i.Coord.setTMS(true) on the caller's element, then ensureLayer up to its
\* read of the map under layerMx.RLock(): a layer found goes on to the tile,
\* a layer not found goes for layerMx.Lock()
BatchItemStart(g) ==
    /\ ~crashed
    /\ batch.pc = "items" /\ batch.g[g] = "start"
    /\ layerMx = 0
    /\ LET c == TileSetTMS(batch.inserts[g].Coord, TRUE)
       IN  batch' = [batch EXCEPT
                        !.inserts[g].Coord = c,
                        !.g[g] = IF layerIds[DefaultLayer(c.Layer)] # 0
                                 THEN "tile" ELSE "wlock"]
    /\ UNCHANGED << db, dbOpen, layerIds, dbLock, layerMx, chans, run, closer, tasks,
                    ops, faultsLeft, crashed, lastIns, hist >>
    /\ UNCHANGED << renderVars, coordVars >>

\* ensureLayer: layerMx.Lock() and the second look at the map; a layer found
\* now returns (the deferred Unlock), a layer still missing keeps the lock
BatchItemLock(g) ==
    /\ ~crashed
    /\ batch.pc = "items" /\ batch.g[g] = "wlock"
    /\ layerMx = 0
    /\ IF layerIds[BatchLayer(g)] # 0
       THEN /\ batch' = [batch EXCEPT !.g[g] = "tile"]
            /\ UNCHANGED layerMx
       ELSE /\ batch' = [batch EXCEPT !.g[g] = "insertLayer"]
            /\ layerMx' = g
    /\ UNCHANGED << db, dbOpen, layerIds, dbLock, chans, run, closer, tasks,
                    ops, faultsLeft, crashed, lastIns, hist >>
    /\ UNCHANGED << renderVars, coordVars >>

\* ensureLayer: INSERT OR IGNORE INTO layers (a failure is only logged), then
\* readLayers starts: m.layerIds = make(map[string]int)
BatchItemInsertLayer(g, f) ==
    /\ ~crashed
    /\ batch.pc = "items" /\ batch.g[g] = "insertLayer"
    /\ MayFail(f)
    /\ db' = IF Fails(f) THEN db ELSE InsertOrIgnoreLayer(db, BatchLayer(g))
    /\ layerIds' = [name \in LayerNames |-> 0]
    /\ batch' = [batch EXCEPT !.g[g] = "readLayers"]
    /\ faultsLeft' = FaultsAfter(f)
    /\ hist' = [hist EXCEPT !.faulted = @ \/ Fails(f)]
    /\ UNCHANGED << dbOpen, dbLock, layerMx, chans, run, closer, tasks,
                    ops, crashed, lastIns >>
    /\ UNCHANGED << renderVars, coordVars >>

\* readLayers: the query and the loop filling the new map (log.Fatal when the
\* query fails), then ensureLayer's deferred layerMx.Unlock()
BatchItemReadLayers(g, f) ==
    /\ ~crashed
    /\ batch.pc = "items" /\ batch.g[g] = "readLayers"
    /\ MayFail(f)
    /\ IF Fails(f)
       THEN crashed' = TRUE /\ UNCHANGED << layerIds, layerMx, batch >>
       ELSE /\ layerIds' = SelectLayers(db)
            /\ layerMx' = 0
            /\ batch' = [batch EXCEPT !.g[g] = "tile"]
            /\ UNCHANGED crashed
    /\ faultsLeft' = FaultsAfter(f)
    /\ hist' = [hist EXCEPT !.faulted = @ \/ Fails(f)]
    /\ UNCHANGED << db, dbOpen, dbLock, chans, run, closer, tasks, ops, lastIns >>
    /\ UNCHANGED << renderVars, coordVars >>

\* the checksum, and under tilesMx the append to tiles with
\* layerID: m.layerIds[l], read with no lock on the map
BatchItemTile(g) ==
    /\ ~crashed
    /\ batch.pc = "items" /\ batch.g[g] = "tile"
    /\ LET i == batch.inserts[g]
       IN  batch' = [batch EXCEPT
                        !.tiles = Append(@, [layerID |-> layerIds[BatchLayer(g)],
                                             z |-> i.Coord.Zoom, x |-> i.Coord.X,
                                             y |-> i.Coord.Y, s |-> Md5Sum(i.BlobPNG)]),
                        !.g[g] = "check"]
    /\ UNCHANGED << db, dbOpen, layerIds, dbLock, layerMx, chans, run, closer, tasks,
                    ops, faultsLeft, crashed, lastIns, hist >>
    /\ UNCHANGED << renderVars, coordVars >>

\* SELECT 1 FROM tile_blobs WHERE checksum=? and the switch on err: "no rows"
\* appends the item's bytes to blobs, another error only logs; wg.Done()
BatchItemCheck(g, f) ==
    /\ ~crashed
    /\ batch.pc = "items" /\ batch.g[g] = "check"
    /\ MayFail(f)
    /\ LET i == batch.inserts[g]
           s == Md5Sum(i.BlobPNG)
       IN  batch' = [batch EXCEPT
                        !.blobs = IF ~Fails(f) /\ ~BlobExists(db, s)
                                  THEN Append(@, [data |-> i.BlobPNG, checksum |-> s])
                                  ELSE @,
                        !.g[g] = "done"]
    /\ faultsLeft' = FaultsAfter(f)
    /\ hist' = [hist EXCEPT !.faulted = @ \/ Fails(f)]
    /\ UNCHANGED << db, dbOpen, layerIds, dbLock, layerMx, chans, run, closer, tasks,
                    ops, crashed, lastIns >>
    /\ UNCHANGED << renderVars, coordVars >>

\* REPLACE INTO tile_blobs VALUES (?, ?),(?, ?)...: one row per element of blobs
RECURSIVE ReplaceBlobs(_, _)
ReplaceBlobs(d, blobs) ==
    IF blobs = << >> THEN d
    ELSE ReplaceBlobs(ReplaceBlob(d, Head(blobs).checksum, Head(blobs).data), Tail(blobs))

\* REPLACE INTO layered_tiles VALUES (?, ?, ?, ?, ?),...: one row per element
\* of tiles, in the order of the list
RECURSIVE ReplaceTiles(_, _)
ReplaceTiles(d, tiles) ==
    IF tiles = << >> THEN d
    ELSE LET t == Head(tiles)
         IN  ReplaceTiles(ReplaceTile(d, t.layerID, t.z, t.x, t.y, t.s), Tail(tiles))

\* BatchInsert returns: the deferred m.dbLock.Unlock().  The history keeps
\* the caller's list as the call left it and the database it left.
BatchReturns(d, failed) ==
    /\ batch' = NoBatch
    /\ dbLock' = [dbLock EXCEPT !.writer = 0]
    /\ hist' = [hist EXCEPT !.pc = "returned", !.faulted = @ \/ failed,
                            !.inserts = batch.inserts, !.dbAfter = d]

\* wg.Wait(), then the statement for the blobs when there are any; a failure
\* returns from BatchInsert
BatchBlobs(f) ==
    /\ ~crashed
    /\ batch.pc = "items" /\ \A g \in BatchIds : batch.g[g] = "done"
    /\ MayFail(f) /\ (f => batch.blobs # << >>)
    /\ IF batch.blobs # << >> /\ Fails(f)
       THEN /\ BatchReturns(db, TRUE)
            /\ UNCHANGED db
       ELSE /\ db' = ReplaceBlobs(db, batch.blobs)
            /\ batch' = [batch EXCEPT !.pc = "tiles"]
            /\ UNCHANGED << dbLock, hist >>
    /\ faultsLeft' = FaultsAfter(f)
    /\ UNCHANGED << dbOpen, layerIds, layerMx, chans, run, closer, tasks,
                    ops, crashed, lastIns >>
    /\ UNCHANGED << renderVars, coordVars >>

\* the statement for the tiles; BatchInsert returns
BatchTiles(f) ==
    /\ ~crashed
    /\ batch.pc = "tiles"
    /\ MayFail(f)
    /\ LET d == IF Fails(f) THEN db ELSE ReplaceTiles(db, batch.tiles)
       IN  db' = d /\ BatchReturns(d, Fails(f))
    /\ faultsLeft' = FaultsAfter(f)
    /\ UNCHANGED << dbOpen, layerIds, layerMx, chans, run, closer, tasks,
                    ops, crashed, lastIns >>
    /\ UNCHANGED << renderVars, coordVars >>

(***************************************************************************)
(* insert and fetch as functions of the database, for a handle that is     *)
(* open and storage calls that succeed.                                    *)
(***************************************************************************)
\* func (m *TileDb) insert(i TileFetchResult) from Lock to Unlock
InsertEffect(d, ids, i) ==
    LET c == TileSetTMS(i.Coord, TRUE)
        l == DefaultLayer(c.Layer)
        s == Md5Sum(i.BlobPNG)
        d1 == IF BlobExists(d, s) THEN d ELSE ReplaceBlob(d, s, i.BlobPNG)
        e == EnsureLayer(d1, ids, l, FALSE, FALSE)
    IN  [db |-> ReplaceTile(e.db, e.layerIds[l], c.Zoom, c.X, c.Y, s),
         layerIds |-> e.layerIds]

\* insert called once per element of a list, in the order of the list
RECURSIVE InsertAllEffect(_, _, _)
InsertAllEffect(d, ids, list) ==
    IF list = << >> THEN [db |-> d, layerIds |-> ids]
    ELSE LET e == InsertEffect(d, ids, Head(list))
         IN  InsertAllEffect(e.db, e.layerIds, Tail(list))

\* func (m *TileDb) fetch(r TileFetchRequest): the result it sends
FetchEffect(d, coord) ==
    LET c == TileSetTMS(coord, TRUE)
        q == FetchQuery(d, c.Zoom, c.X, c.Y, DefaultLayer(c.Layer))
    IN  TileFetchResult(c, IF q.noRows THEN NilBytes ELSE q.blob, NoErr)

(***************************************************************************)
(* Properties of the cache.                                                *)
(***************************************************************************)
\* the tile record asked for by coordinate c (in the stored scheme) exists
\* and no blob row has its checksum
Dangling(d, c) ==
    \E row \in d.layered_tiles :
        /\ SelectLayerRowid(d, DefaultLayer(c.Layer)) = row.layer_id
        /\ row.zoom_level = c.Zoom /\ row.tile_column = c.X /\ row.tile_row = c.Y
        /\ ~BlobExists(d, row.checksum)

\* C5 (as claimed): a fetch that found a tile record whose blob row is
\* missing replies with an error.  (fetch holds the read lock until it has
\* replied, so the database is still the one it queried.)
C5_IntegritySurfaced ==
    \A t \in TaskIds :
        (/\ tasks[t].kind = "fetch" /\ tasks[t].pc = "reply"
         /\ Dangling(db, tasks[t].coord))
        => tasks[t].result.Error # NoErr

\* C6 (as claimed): tile_blobs holds one row per checksum.
C6_OneBlobRowPerChecksum ==
    \A r1, r2 \in BagToSet(db.tile_blobs) :
        /\ CopiesIn(r1, db.tile_blobs) = 1
        /\ r1.checksum = r2.checksum => r1 = r2

\* C7 (as claimed): when the storage handle has been closed, no goroutine
\* spawned for an accepted fetch or insert is waiting to start or running.
C7_CloseAfterTasks ==
    ~dbOpen => \A t \in TaskIds : tasks[t] = NoTask

\* C9: a fetch that ran its query on the open handle, for a tile that some
\* completed insert wrote, replies with the bytes of the last insert completed
\* for that tile and with no error.
C9_FetchReturnsLastInsert ==
    \A t \in TaskIds :
        (/\ tasks[t].kind = "fetch" /\ tasks[t].pc = "reply" /\ tasks[t].open
         /\ lastIns[TileKey(tasks[t].coord)] # NilBytes)
        => /\ tasks[t].result.BlobPNG = lastIns[TileKey(tasks[t].coord)]
           /\ tasks[t].result.Error = NoErr

\* C9 witness: a fetch replies with bytes 2 for the only tile record there
\* is, after an insert of bytes 1 and a later insert of bytes 2 for that tile.
C9_Witness ==
    \E t \in TaskIds :
        /\ tasks[t].kind = "fetch" /\ tasks[t].pc = "reply" /\ tasks[t].open
        /\ tasks[t].result.BlobPNG = 2
        /\ lastIns[TileKey(tasks[t].coord)] = 2
        /\ BlobExists(db, Md5Sum(1))
        /\ Cardinality(db.layered_tiles) = 1

\* the elements of a list are for different tiles
DistinctTiles(list) ==
    \A i, j \in 1 .. Len(list) : TileKey(list[i].Coord) = TileKey(list[j].Coord) => i = j

\* C10 (as claimed): after a BatchInsert of a list of different tiles in which
\* no storage call failed, fetching each coordinate of the list gives the
\* bytes it gives after insert was called once per element, in any order,
\* from the state the batch started in.
C10_BatchEqualsInserts ==
    (hist.pc = "returned" /\ ~hist.faulted /\ DistinctTiles(hist.list)) =>
        \A p \in Permutations(1 .. Len(hist.list)) :
            LET seq == InsertAllEffect(hist.db, hist.layerIds,
                                       [i \in 1 .. Len(hist.list) |-> hist.list[p[i]]])
            IN  \A i \in 1 .. Len(hist.list) :
                    FetchEffect(hist.dbAfter, hist.list[i].Coord).BlobPNG
                        = FetchEffect(seq.db, hist.list[i].Coord).BlobPNG

\* the tables and the registry already hold item i (coordinate in either
\* scheme): its layer has an id in the map, a blob row has the checksum of
\* its bytes, and the tile record of its key has that checksum
Stored(d, ids, i) ==
    LET c == TileSetTMS(i.Coord, TRUE)
        l == DefaultLayer(c.Layer)
        s == Md5Sum(i.BlobPNG)
    IN  /\ ids[l] # 0
        /\ \E b \in BagToSet(d.tile_blobs) : b.checksum = s
        /\ [layer_id |-> ids[l], zoom_level |-> c.Zoom, tile_column |-> c.X,
            tile_row |-> c.Y, checksum |-> s] \in d.layered_tiles

\* goroutine t is an insert between its Lock and its Unlock
Inserting(t) ==
    tasks[t].kind = "insert" /\ tasks[t].pc \in {"check", "blob", "layer", "tile"}

\* C11: no step of an insert whose item is already stored (the state an
\* earlier insert of the same coordinate and bytes left) changes the layer
\* registry, the tile records or the blob rows.
C11_InsertIdempotent ==
    [][\A t \in TaskIds :
          (Inserting(t) /\ Stored(db, layerIds, tasks[t].item) /\ tasks'[t] # tasks[t])
          => (db' = db /\ layerIds' = layerIds)]_vars

\* C11 witness: the second insert of bytes 1 for a tile of layer "roads" has
\* passed its blob check and ensureLayer and is about to write the tile record
\* that the first insert wrote.
C11_Witness ==
    \E t \in TaskIds :
        /\ Inserting(t) /\ tasks[t].pc = "tile"
        /\ tasks[t].item.Coord.Layer = "roads" /\ tasks[t].item.BlobPNG = 1
        /\ Stored(db, layerIds, tasks[t].item)
        /\ lastIns[TileKey(tasks[t].item.Coord)] = 1
        /\ dbOpen

\* C12: the layer registry has one row per layer name, the rowid of a name
\* that has a row never changes, and an id the map m.layerIds holds for a
\* name is that rowid; under every interleaving of ensureLayer calls, from
\* insert and from the goroutines of BatchInsert, also with failing storage
\* calls.  (The map being empty for a moment inside readLayers is not counted
\* as a change of id here.)
C12_OneLayerRowStableId ==
    /\ [](\A r1, r2 \in db.layers : r1.layer_name = r2.layer_name => r1 = r2)
    /\ [](\A name \in LayerNames :
             layerIds[name] # 0 => layerIds[name] = SelectLayerRowid(db, name))
    /\ [][\A name \in LayerNames :
             SelectLayerRowid(db, name) # 0
             => SelectLayerRowid(db', name) = SelectLayerRowid(db, name)]_vars

\* C12 witness: two goroutines of one batch use the unseen layer "roads" for
\* the first time together: both found it missing from the map, the first
\* holds layerMx, has inserted the row and is reloading the map, the second
\* waits for layerMx.
C12_Witness ==
    /\ batch.pc = "items" /\ Len(batch.inserts) = 2
    /\ BatchLayer(1) = "roads" /\ BatchLayer(2) = "roads"
    /\ \E g1, g2 \in BatchIds :
          /\ batch.g[g1] = "readLayers" /\ batch.g[g2] = "wlock" /\ layerMx = g1
    /\ SelectLayerRowid(db, "roads") = 2
    /\ Cardinality(db.layers) = 2

\* the goroutines and calls inside a section of m.dbLock, by their positions:
\* an insert between Lock and Unlock, the BatchInsert call from Lock to its
\* return, a fetch between RLock and RUnlock
Writing ==
    { t \in TaskIds : Inserting(t) } \cup (IF batch.pc # "none" THEN {BatchWriter} ELSE {})

Reading ==
    { t \in TaskIds : tasks[t].kind = "fetch" /\ tasks[t].pc \in {"query", "reply"} }

\* C13: at most one insert or BatchInsert is inside its storage section, and
\* no fetch is inside its read section while one is.
C13_WritersExclusive ==
    /\ Cardinality(Writing) <= 1
    /\ Writing # {} => Reading = {}

\* C13 witness: two fetches are inside their read sections together, one
\* about to query and one about to reply, after an insert wrote a tile, while
\* the storage handle is open.
C13_Witness ==
    /\ Cardinality(Reading) = 2
    /\ \E t1, t2 \in Reading : tasks[t1].pc = "query" /\ tasks[t2].pc = "reply"
    /\ db.layered_tiles # {}
    /\ dbOpen

\* C19 (as claimed): the reply of a fetch carries the coordinate of the
\* request, row and scheme, and when BatchInsert has returned the coordinates
\* of the caller's items are what they were before the call.  (insert works
\* on the copy of the result it received from the channel; a caller of
\* InsertQueue() keeps its own value.)
C19_SchemeRestored ==
    /\ \A t \in TaskIds :
          (tasks[t].kind = "fetch" /\ tasks[t].pc = "reply")
          => tasks[t].result.Coord = tasks[t].asked
    /\ hist.pc = "returned"
       => \A i \in 1 .. Len(hist.list) : hist.inserts[i].Coord = hist.list[i].Coord

\* layered_tiles has a record for coordinate c (rows in the stored scheme)
\* under the registry id of c's layer
HasRecord(d, c) ==
    \E row \in d.layered_tiles :
        /\ SelectLayerRowid(d, DefaultLayer(c.Layer)) # 0
        /\ SelectLayerRowid(d, DefaultLayer(c.Layer)) = row.layer_id
        /\ row.zoom_level = c.Zoom /\ row.tile_column = c.X /\ row.tile_row = c.Y

\* C22: a fetch whose query runs on the open handle while there is no tile
\* record for its coordinate (the layer in the registry or not) builds a reply
\* with no bytes and no error, and the task sends that one reply and ends.
C22_MissIsNotAnError ==
    [][\A t \in TaskIds :
          /\ (/\ tasks[t].kind = "fetch" /\ tasks[t].pc = "query"
              /\ tasks'[t].pc = "reply" /\ tasks'[t].open
              /\ ~HasRecord(db, tasks[t].coord))
             => /\ tasks'[t].result.BlobPNG = NilBytes
                /\ tasks'[t].result.Error = NoErr
          /\ (tasks[t].kind = "fetch" /\ tasks[t].pc = "reply" /\ tasks'[t] # tasks[t])
             => tasks'[t] = NoTask]_vars

\* C22 witness: a fetch for layer "roads", which the registry does not have,
\* replies with no bytes and no error while the same zoom, column and row is
\* stored for the default layer
C22_Witness ==
    \E t \in TaskIds :
        /\ tasks[t].kind = "fetch" /\ tasks[t].pc = "reply" /\ tasks[t].open
        /\ tasks[t].coord.Layer = "roads"
        /\ SelectLayerRowid(db, "roads") = 0
        /\ HasRecord(db, [tasks[t].coord EXCEPT !.Layer = ""])
        /\ tasks[t].result.BlobPNG = NilBytes /\ tasks[t].result.Error = NoErr

\* element k of the batch's tiles list was appended by goroutine g: g is past
\* its append and the element has g's zoom, column, row and checksum
AppendedBy(k, g) ==
    /\ batch.g[g] \in {"check", "done"}
    /\ batch.tiles[k].z = batch.inserts[g].Coord.Zoom
    /\ batch.tiles[k].x = batch.inserts[g].Coord.X
    /\ batch.tiles[k].y = batch.inserts[g].Coord.Y
    /\ batch.tiles[k].s = Md5Sum(batch.inserts[g].BlobPNG)

\* C23 (as claimed): in a BatchInsert during which no storage call fails,
\* every element appended to the tiles list carries the id the layers table
\* has for the layer name of the item it was appended for, never 0, and every
\* tile record the call has written has the rowid of a layers row.
C23_TilesCarryLayerId ==
    /\ (batch.pc # "none" /\ ~hist.faulted)
       => \A k \in 1 .. Len(batch.tiles) :
             /\ batch.tiles[k].layerID # 0
             /\ \E g \in BatchIds :
                   /\ AppendedBy(k, g)
                   /\ batch.tiles[k].layerID = SelectLayerRowid(db, BatchLayer(g))
    /\ (hist.pc = "returned" /\ ~hist.faulted)
       => \A row \in hist.dbAfter.layered_tiles \ hist.db.layered_tiles :
             \E l \in hist.dbAfter.layers : l.rowid = row.layer_id

\* C24 (as claimed): whatever inserts and batch inserts have run, with
\* storage calls failing or not, every tile record's checksum is the checksum
\* of a blob row.
C24_ReferentialIntegrity ==
    \A row \in db.layered_tiles : BlobExists(db, row.checksum)

(***************************************************************************)
(* Specifications.                                                         *)
(***************************************************************************)
\* the render side while only the cache is looked at
RenderIdle ==
    /\ layerChans = [l \in LayerNames |-> 0]
    /\ workers = << >>
    /\ reqs = << >>
    /\ server = TRUE
    /\ cacheOn = TRUE

\* the two queues and the goroutines Run spawns (a process exits at
\* log.Fatal: every step has ~crashed)
NextPipeline ==
    \/ \E c \in CacheCoords : RunFetch(c)
    \/ \E i \in CacheItems : RunInsert(i)
    \/ \E t \in TaskIds : FetchStart(t)
    \/ \E t \in TaskIds : \E f \in BOOLEAN : FetchRow(t, f)
    \/ \E t \in TaskIds : FetchReply(t)
    \/ \E t \in TaskIds : InsertStart(t)
    \/ \E t \in TaskIds : \E f \in BOOLEAN : InsertCheck(t, f)
    \/ \E t \in TaskIds : \E f \in BOOLEAN : InsertBlob(t, f)
    \/ \E t \in TaskIds : \E f \in BOOLEAN : InsertEnsureLayer(t, f)
    \/ \E t \in TaskIds : \E f \in BOOLEAN : InsertTile(t, f)

NextClose ==
    \/ \E ch \in {"request", "insert"} : RunSeesClosed(ch)
    \/ CloseInsertChan
    \/ CloseRequestChan
    \/ CloseWaitRun
    \/ CloseDb

NextCache == NextPipeline \/ NextClose

\* the coordinates, results and lists used with BatchInsert
BatchCoords == { TileCoord(0, 0, CacheZoom, FALSE, l) : l \in {"", "roads"} }

BatchItems == { TileFetchResult(c, b, NoErr) : c \in BatchCoords, b \in Blobs }

BatchLists == UNION { [1 .. n -> BatchItems] : n \in 1 .. MaxBatch }

NextBatchInsert ==
    \/ \E list \in BatchLists : BatchInsert(list)
    \/ \E g \in BatchIds : BatchItemStart(g)
    \/ \E g \in BatchIds : BatchItemLock(g)
    \/ \E g \in BatchIds : \E f \in BOOLEAN : BatchItemInsertLayer(g, f)
    \/ \E g \in BatchIds : \E f \in BOOLEAN : BatchItemReadLayers(g, f)
    \/ \E g \in BatchIds : BatchItemTile(g)
    \/ \E g \in BatchIds : \E f \in BOOLEAN : BatchItemCheck(g, f)
    \/ \E f \in BOOLEAN : BatchBlobs(f)
    \/ \E f \in BOOLEAN : BatchTiles(f)

NextBatchPipeline ==
    \/ \E c \in BatchCoords : RunFetch(c)
    \/ \E i \in BatchItems : RunInsert(i)
    \/ \E t \in TaskIds : FetchStart(t)
    \/ \E t \in TaskIds : \E f \in BOOLEAN : FetchRow(t, f)
    \/ \E t \in TaskIds : FetchReply(t)
    \/ \E t \in TaskIds : InsertStart(t)
    \/ \E t \in TaskIds : \E f \in BOOLEAN : InsertCheck(t, f)
    \/ \E t \in TaskIds : \E f \in BOOLEAN : InsertBlob(t, f)
    \/ \E t \in TaskIds : \E f \in BOOLEAN : InsertEnsureLayer(t, f)
    \/ \E t \in TaskIds : \E f \in BOOLEAN : InsertTile(t, f)

NextBatch == NextBatchInsert \/ NextBatchPipeline

\* the open cache with BatchInsert callers beside the two queues, the
\* environment making up to MaxFaults storage calls fail
InitBatch == InitCache /\ faultsLeft = MaxFaults /\ RenderIdle /\ CoordIdle

SpecBatch == InitBatch /\ [][NextBatch]_vars

\* the cache from NewTileDb to Close, storage calls failing only on a closed handle
InitCacheOnly == InitCache /\ faultsLeft = 0 /\ RenderIdle /\ CoordIdle

SpecCache == InitCacheOnly /\ [][NextCache]_vars

\* the render side, the cache left as NewTileDb made it
InitServer == InitRender /\ InitCache /\ faultsLeft = 0 /\ CoordIdle

SpecRender == InitServer /\ [][NextRender]_vars

(***************************************************************************)
(* Admission: more submitters than a queue has workers.                    *)
(***************************************************************************)
\* the requests of the submitters: single tiles, and blocks of one column
AdmissionTiles == { c \in TileInputs : c.Y = 0 /\ ~c.Tms }
AdmissionMetas == { c \in MetaInputs : c.MinY = 0 /\ c.MaxX = 0 /\ ~c.Tms }

\* a goroutine about to call LayerMultiplex.SubmitRequest with a request of
\* its own, up to MaxSubmit of them
NewSubmitter(kind, c) ==
    /\ ~server
    /\ Len(reqs) < MaxSubmit
    /\ reqs' = Append(reqs, NewReq(kind, c, "submit"))
    /\ UNCHANGED << layerChans, workers, server, cacheOn >>
    /\ UNCHANGED << cacheVars, coordVars >>

NextAdmission ==
    \/ DefaultRenderMultiplex
    \/ \E name \in StyledLayers : AddRenderer(name)
    \/ \E mc \in AdmissionMetas : NewSubmitter("meta", mc)
    \/ \E tc \in AdmissionTiles : NewSubmitter("tile", tc)
    \/ \E r \in 1 .. Len(reqs) : \E w \in 1 .. Len(workers) : SubmitRequest(r, w)
    \/ \E r \in 1 .. Len(reqs) : SubmitNoLayer(r)
    \/ \E w \in 1 .. Len(workers) : \E o \in MetaOutcomes \cup TileOutcomes : Render(w, o)
    \/ \E w \in 1 .. Len(workers) : Send(w)

\* a multiplexer used directly (no TileServer), the cache left as NewTileDb made it
InitAdmission == InitRender /\ ~server /\ InitCache /\ faultsLeft = 0 /\ CoordIdle

SpecAdmission == InitAdmission /\ [][NextAdmission]_vars

\* the queue a request goes to, 0 when its layer has none
QueueOf(r) == layerChans[reqs[r].coord.Layer]

\* the requests accepted on queue q whose results have not all been delivered
InFlight(q) ==
    { r \in ReqIds : reqs[r].accepted /\ QueueOf(r) = q /\ Len(reqs[r].out) < Expected(r) }

\* the workers reading queue q
Readers(q) == { w \in WorkerIds : workers[w].queue = q }

\* C21: SubmitRequest for a registered layer returns only in the step in which
\* a worker listening on the layer's queue takes the request, and on every
\* queue the requests accepted and not yet fully answered are never more than
\* the workers reading the queue.
C21_AdmissionControl ==
    /\ [](\A q \in 1 .. NumQueues : Cardinality(InFlight(q)) <= Cardinality(Readers(q)))
    /\ [][\A r \in ReqIds :
             (reqs[r].pc = "submit" /\ reqs'[r].pc # "submit" /\ QueueOf(r) # 0)
             => \E w \in Readers(QueueOf(r)) :
                   /\ workers[w].pc = "listen"
                   /\ workers'[w].pc = "render" /\ workers'[w].req = r
                   /\ reqs'[r].accepted]_vars

\* every worker of a queue holds a request whose results are not all
\* delivered, and one more submitter of that queue is still inside SubmitRequest
C21_Witness ==
    \E q \in 1 .. NumQueues :
        /\ Cardinality(InFlight(q)) = Cardinality(Readers(q))
        /\ \E r \in ReqIds : QueueOf(r) = q /\ reqs[r].pc = "submit" /\ ~reqs[r].accepted
        /\ \E r \in InFlight(q) : reqs[r].kind = "meta" /\ reqs[r].out # << >>

(***************************************************************************)
(* The coordinate methods, called on a caller's values.                    *)
(***************************************************************************)
\* the blocks constructed: MaxX >= MinX and MaxY >= MinY, rows also past
\* 2^Zoom - 1
MetaValues ==
    { MetaTileCoord(x, y, x + w - 1, y + h - 1, z, tms, l) :
        x \in 0 .. MaxMin, y \in 0 .. MaxMin, w \in 1 .. MaxSize, h \in 1 .. MaxSize,
        z \in 0 .. MaxZoom, tms \in BOOLEAN, l \in {"", "roads"} }

\* the tiles constructed: rows also past 2^Zoom - 1
TileValues ==
    { TileCoord(x, y, z, tms, l) :
        x \in 0 .. MaxMin, y \in 0 .. 2 ^ MaxZoom, z \in 0 .. MaxZoom,
        tms \in BOOLEAN, l \in {"", "roads"} }

\* a caller constructs one block or one tile
InitCoord ==
    /\ InitCache /\ faultsLeft = 0 /\ RenderIdle
    /\ \/ meta \in { << m >> : m \in MetaValues } /\ tile = << >>
       \/ tile \in { << t >> : t \in TileValues } /\ meta = << >>
    /\ coords = NoCoords
    /\ calls = 0

\* c.setTMS(tms) on the caller's MetaTileCoord
MetaSetTMSCall(tms) ==
    /\ meta # << >> /\ calls < MaxCalls
    /\ meta' = Append(meta, MetaSetTMS(meta[Len(meta)], tms))
    /\ calls' = calls + 1
    /\ UNCHANGED << tile, coords >>
    /\ UNCHANGED << renderVars, cacheVars >>

\* c.TileCoords() on the caller's MetaTileCoord (XSize and YSize panic on a
\* block with MaxX < MinX or MaxY < MinY)
TileCoordsCall ==
    /\ meta # << >> /\ calls < MaxCalls
    /\ LET c == meta[Len(meta)]
       IN  /\ c.MaxX >= c.MinX /\ c.MaxY >= c.MinY
           /\ coords' = [called |-> TRUE, of |-> c, list |-> TileCoords(c),
                         xSize |-> XSize(c), ySize |-> YSize(c), count |-> Count(c)]
    /\ calls' = calls + 1
    /\ UNCHANGED << meta, tile >>
    /\ UNCHANGED << renderVars, cacheVars >>

\* c.setTMS(tms) on the caller's TileCoord
TileSetTMSCall(tms) ==
    /\ tile # << >> /\ calls < MaxCalls
    /\ tile' = Append(tile, TileSetTMS(tile[Len(tile)], tms))
    /\ calls' = calls + 1
    /\ UNCHANGED << meta, coords >>
    /\ UNCHANGED << renderVars, cacheVars >>

NextCoord ==
    \/ \E tms \in BOOLEAN : MetaSetTMSCall(tms)
    \/ TileCoordsCall
    \/ \E tms \in BOOLEAN : TileSetTMSCall(tms)

(***************************************************************************)
(* Properties of the coordinate methods.                                   *)
(***************************************************************************)
\* C15: for a block with MaxX >= MinX and MaxY >= MinY, Count() is
\* XSize() * YSize() and is the length of the slice TileCoords() returns.
C15_CountIsProduct ==
    coords.called =>
        /\ coords.count = coords.xSize * coords.ySize
        /\ Len(coords.list) = coords.count

\* C15 witness: TileCoords(), XSize(), YSize() and Count() were called on a
\* block of 1 column and 2 rows that a setTMS call had converted.
C15_Witness ==
    /\ coords.called
    /\ coords.xSize = 1 /\ coords.ySize = 2 /\ Len(coords.list) = 2
    /\ Len(meta) = 2 /\ coords.of = meta[2] /\ meta[2].Tms # meta[1].Tms

\* the columns and rows of a slice of tiles, in order
XYs(list) == [i \in 1 .. Len(list) |-> << list[i].X, list[i].Y >>]

\* C16: TileCoords() lists the tiles column by column, the rows of a column
\* ascending: the tile of column offset x and row offset y is at position
\* x * YSize() + y, with the block's Zoom, scheme and Layer; the block
\* (1,1)-(2,2) at zoom 3 gives (1,1), (1,2), (2,1), (2,2).
C16_ColumnMajor ==
    coords.called =>
        LET c == coords.of
        IN  /\ \A x \in 0 .. coords.xSize - 1, y \in 0 .. coords.ySize - 1 :
                  coords.list[x * coords.ySize + y + 1]
                      = TileCoord(U(c.MinX + x), U(c.MinY + y), c.Zoom, c.Tms, c.Layer)
            /\ (c.MinX = 1 /\ c.MinY = 1 /\ c.MaxX = 2 /\ c.MaxY = 2 /\ c.Zoom = 3)
               => /\ XYs(coords.list) = << <<1, 1>>, <<1, 2>>, <<2, 1>>, <<2, 2>> >>
                  /\ \A i \in 1 .. 4 : /\ coords.list[i].Zoom = 3
                                       /\ coords.list[i].Tms = c.Tms
                                       /\ coords.list[i].Layer = c.Layer

\* C16 witness: TileCoords() was called on the block (1,1)-(2,2) at zoom 3
\* of layer "roads".
C16_Witness ==
    /\ coords.called
    /\ coords.of = MetaTileCoord(1, 1, 2, 2, 3, FALSE, "roads")
    /\ Len(coords.list) = 4

\* C17: a setTMS call on a TileCoord never changes X, Zoom or Layer; a call
\* with the scheme the tile has changes nothing (so a second call with the
\* same target equals the first); a call with the other scheme followed by a
\* call with the first scheme gives back the tile it started from.  It holds
\* for every row, also past 2^Zoom - 1.
C17_TileSetTMSInvolutive ==
    \A i \in 1 .. Len(tile) - 1 :
        LET a == tile[i]
            b == tile[i + 1]
        IN  /\ b.X = a.X /\ b.Zoom = a.Zoom /\ b.Layer = a.Layer
            /\ b.Tms = a.Tms => b = a
            /\ (i + 2 <= Len(tile) /\ b.Tms # a.Tms /\ tile[i + 2].Tms = a.Tms)
               => tile[i + 2] = a

\* C17 witness: a tile with a row below 2^Zoom was converted to the other
\* scheme, which moved its row, and converted back.
C17_Witness ==
    /\ Len(tile) = 3
    /\ tile[1].Y < Shl1(tile[1].Zoom)
    /\ tile[2].Tms # tile[1].Tms /\ tile[2].Y # tile[1].Y
    /\ tile[3].Tms = tile[1].Tms /\ tile[3] = tile[1]

\* the tiles of a block, as a set
TileSet(c) == { TileCoords(c)[k] : k \in 1 .. Len(TileCoords(c)) }

\* a block with MaxX >= MinX and MinY <= MaxY < 2^Zoom
ValidBlock(c) == c.MaxX >= c.MinX /\ c.MinY <= c.MaxY /\ c.MaxY < Shl1(c.Zoom)

\* C18: a setTMS call that converts a valid block gives a block with
\* MaxY >= MinY and the same XSize, YSize and Count, whose tiles are the
\* tiles of the block before, each converted by TileCoord.setTMS; the call
\* that converts it back gives back MinY and MaxY.
C18_MetaSetTMSConsistent ==
    \A i \in 1 .. Len(meta) - 1 :
        LET a == meta[i]
            b == meta[i + 1]
        IN  (ValidBlock(a) /\ b.Tms # a.Tms) =>
                /\ b.MaxY >= b.MinY
                /\ XSize(b) = XSize(a) /\ YSize(b) = YSize(a) /\ Count(b) = Count(a)
                /\ TileSet(b) = { TileSetTMS(t, b.Tms) : t \in TileSet(a) }
                /\ (i + 2 <= Len(meta) /\ meta[i + 2].Tms = a.Tms)
                   => (meta[i + 2].MinY = a.MinY /\ meta[i + 2].MaxY = a.MaxY)

\* C18 witness: a valid block of 2 columns and 2 rows that is not its own
\* mirror image was converted and converted back.
C18_Witness ==
    /\ Len(meta) = 3
    /\ ValidBlock(meta[1]) /\ XSize(meta[1]) = 2 /\ YSize(meta[1]) = 2
    /\ meta[2].Tms # meta[1].Tms /\ meta[2].MinY # meta[1].MinY
    /\ meta[3].Tms = meta[1].Tms

\* the coordinate methods called on values of a caller, nothing else running
SpecCoord == InitCoord /\ [][NextCoord]_vars

\* Every goroutine that can take a step eventually does: the Go scheduler
\* runs every runnable goroutine, and a channel operation whose partner is
\* ready completes.
FairSpecRender ==
    /\ SpecRender
    /\ \A r \in 1 .. MaxReq :
          /\ WF_vars(r \in ReqIds /\ \E rep \in CacheReplies : CacheReply(r, rep))
          /\ WF_vars(r \in ReqIds /\ \E w \in WorkerIds : SubmitRequest(r, w))
          /\ WF_vars(r \in ReqIds /\ SubmitNoLayer(r))
          /\ WF_vars(r \in ReqIds /\ Respond(r))
          /\ WF_vars(r \in ReqIds /\ QueueInsert(r))
    /\ \A w \in 1 .. MaxQueues * NumRenderers :
          /\ WF_vars(w \in WorkerIds /\ \E o \in MetaOutcomes \cup TileOutcomes : Render(w, o))
          /\ WF_vars(w \in WorkerIds /\ Send(w))

====
